---------------------------- MODULE Spec2Model ----------------------------
(***************************************************************************)
(* Model of backend/routers/story.py: the story-job lifecycle              *)
(* (create_story, generate_story_task).                                    *)
(*                                                                         *)
(* The committed contents of the StoryJob table are `jobs`.  Each call of  *)
(* create_story is a request r; the background task it schedules is        *)
(* task[r].  A task works on its own SQLAlchemy session: `obj` is the      *)
(* in-memory StoryJob instance of that session, `failed` says that a flush *)
(* or commit of that session has raised and no rollback() was issued.      *)
(*                                                                         *)
(* Session semantics used by the executor (sqlalchemy.orm.Session, the     *)
(* type imported on line 5 and produced by SessionLocal on line 61):       *)
(*   - commit() flushes the instance's pending attribute changes and       *)
(*     commits them, or raises and persists nothing;                       *)
(*   - when commit() raises, the session's transaction is rolled back and  *)
(*     every instance is expired (pending attribute changes are lost);     *)
(*     until rollback() is called every later commit() of that session     *)
(*     raises too ("This Session's transaction has been rolled back due    *)
(*     to a previous exception during flush").  generate_story_task never  *)
(*     calls rollback();                                                   *)
(*   - an UPDATE of a row that no longer exists raises (StaleDataError).   *)
(***************************************************************************)
EXTENDS Integers, Sequences, FiniteSets, TLC

\* ------------------------------------------------------------------ bounds
MaxReqs == 2        \* number of create_story calls
MaxClock == 1       \* largest value of the wall clock
MaxNodes == 3       \* number of StoryNode rows in storage

Reqs == 1..MaxReqs
JobIds == 1..(MaxReqs + 1)     \* values uuid4 can return
Themes == {"pirates"}
SessionIds == {"s1"}
GenErrors == {"boom", ""}      \* messages of exceptions raised by generate_story
DbError == "db error"          \* message of an exception raised by the storage layer

\* Optional[T]: None is the empty sequence, a value v is <<v>>
None == << >>
Some(v) == <<v>>

VARIABLES
    jobs,       \* committed StoryJob rows: a function job_id -> row
    issued,     \* job ids generated so far
    nstories,   \* number of Story rows created by the generator
    clock,      \* wall clock read by datetime.now()
    req,        \* req[r]: state of the r-th call of create_story
    task,       \* task[r]: state of the background task of request r
    story_tbl,  \* committed Story rows: a function story id -> row
    node_tbl,   \* committed StoryNode rows, in the order a query returns them
    asm         \* state of a call of get_complete_story

vars == <<jobs, issued, nstories, clock, req, task, story_tbl, node_tbl, asm>>

\* ------------------------------------------------------------ create_story
\* uuid.uuid4(): a value not generated before
Uuid4_const == CHOOSE id \in JobIds : \A o \in JobIds : id <= o
Uuid4 == CHOOSE id \in JobIds : id \notin issued /\ \A o \in JobIds \ issued : id <= o

\* StoryJob(job_id=..., session_id=..., theme=..., status="pending")
NewJob(job_id, session_id, theme) ==
    [job_id |-> job_id, session_id |-> session_id, theme |-> theme,
     status |-> "pending", story_id |-> None, completed_at |-> None,
     error |-> None, created_at |-> clock]

\* StoryJobResponse (from_attributes): the six fields of the summary
StoryJobResponse(row) ==
    [job_id |-> row.job_id, status |-> row.status, created_at |-> row.created_at,
     story_id |-> row.story_id, completed_at |-> row.completed_at,
     error |-> row.error]

IdleReq == [pc |-> "idle", job_id |-> 0, session_id |-> "", theme |-> "",
            db |-> None, response |-> None]

IdleTask == [pc |-> "none", job_id |-> 0, session_id |-> "", theme |-> "",
             handle |-> "none", load |-> "none", obj |-> None, failed |-> FALSE,
             gen |-> "none", calls |-> 0, story |-> None, exc |-> None,
             escaped |-> FALSE, db |-> None]

\* no call of get_complete_story is in progress
IdleAsm == [pc |-> "idle", arg |-> 0, story |-> None, loaded |-> FALSE,
            nodes |-> << >>, i |-> 0, node_dict |-> [id \in {} |-> None],
            root |-> None, result |-> None, status |-> 0]

Init ==
    /\ jobs = [id \in {} |-> None]
    /\ issued = {}
    /\ nstories = 0
    /\ clock = 0
    /\ req = [r \in Reqs |-> IdleReq]
    /\ task = [r \in Reqs |-> IdleTask]
    /\ story_tbl = [id \in {} |-> None]
    /\ node_tbl = << >>
    /\ asm = IdleAsm

\* line 34: db: Session = Depends(get_db), the session of request r
get_db(r) == <<"request", r>>

\* lines 38-44: job_id = uuid4(); job = StoryJob(...); db.add(job); db.commit()
CreateJob(r, theme, session_id) ==
    /\ req[r].pc = "idle"
    /\ \A q \in Reqs : q < r => req[q].pc # "idle"    \* calls are numbered in order of arrival
    /\ issued # JobIds
    /\ LET id == Uuid4 IN
        /\ issued' = issued \cup {id}
        /\ jobs' = jobs @@ (id :> NewJob(id, session_id, theme))
        /\ req' = [req EXCEPT ![r] = [pc |-> "committed", job_id |-> id,
                                      session_id |-> session_id, theme |-> theme,
                                      db |-> Some(get_db(r)),
                                      response |-> None]]
    /\ UNCHANGED <<nstories, clock, task, story_tbl, node_tbl, asm>>

\* lines 48-50: background_tasks.add_task(generate_story_task, job_id, theme, session_id)
AddTask(r) ==
    /\ req[r].pc = "committed"
    /\ req' = [req EXCEPT ![r].pc = "scheduled"]
    /\ task' = [task EXCEPT ![r] = [IdleTask EXCEPT !.pc = "queued",
                                        !.job_id = req[r].job_id,
                                        !.theme = req[r].theme,
                                        !.session_id = req[r].session_id]]
    /\ UNCHANGED <<jobs, issued, nstories, clock, story_tbl, node_tbl, asm>>

\* line 52: return job (serialised through response_model=StoryJobResponse)
ReturnJob(r) ==
    /\ req[r].pc = "scheduled"
    /\ req[r].job_id \in DOMAIN jobs
    /\ req' = [req EXCEPT ![r].pc = "returned",
                          ![r].response = Some(StoryJobResponse(jobs[req[r].job_id]))]
    /\ UNCHANGED <<jobs, issued, nstories, clock, task, story_tbl, node_tbl, asm>>

\* the wall clock advances
Tick ==
    /\ clock < MaxClock
    /\ clock' = clock + 1
    /\ UNCHANGED <<jobs, issued, nstories, req, task, story_tbl, node_tbl, asm>>

\* ------------------------------------------------------ generate_story_task
\* BackgroundTasks run a queued task only after the response of the request
\* that queued it has been produced (comment on lines 55-56)
CanStart_eager(r) == TRUE
CanStart(r) == req[r].pc = "returned"

\* str(e)
Str(e) == e.msg

\* line 71: job.status = "processing"
ProcessingAssign_skip(obj) == obj
ProcessingAssign(obj) == [obj EXCEPT !.status = "processing"]

\* lines 76-78: job.story_id = story.id; job.status = "completed";
\*              job.completed_at = datetime.now()
CompletedAssign_nostory(obj, story_id) ==
    [obj EXCEPT !.status = "completed", !.completed_at = Some(clock)]
CompletedAssign_nostatus(obj, story_id) ==
    [obj EXCEPT !.story_id = Some(story_id), !.completed_at = Some(clock)]
CompletedAssign(obj, story_id) ==
    [obj EXCEPT !.story_id = Some(story_id), !.status = "completed",
                !.completed_at = Some(clock)]

\* lines 81-83: job.status = "failed"; job.completed_at = datetime.now();
\*              job.error = str(e)
FailedAssign_noerror(obj, e) ==
    [obj EXCEPT !.status = "failed", !.completed_at = Some(clock)]
FailedAssign_notime(obj, e) ==
    [obj EXCEPT !.status = "failed", !.error = Some(Str(e))]
FailedAssign(obj, e) ==
    [obj EXCEPT !.status = "failed", !.completed_at = Some(clock),
                !.error = Some(Str(e))]

\* db.commit() can persist the instance: the session has had no failed
\* flush/commit, and the row to UPDATE still exists
CanCommit(t) == ~t.failed /\ t.job_id \in DOMAIN jobs

\* the session after db.commit() has raised: transaction rolled back, the
\* instance expired (it reads the committed row again), later commits raise
CommitRaised_usable(t) == t
CommitRaised(t) ==
    [t EXCEPT !.failed = TRUE,
              !.obj = IF t.job_id \in DOMAIN jobs THEN Some(jobs[t.job_id]) ELSE t.obj]

\* lines 72, 79, 84: a successful db.commit() flushes the one object this
\* session has loaded (line 64), the row of the task's own job
Persist_shared(tbl, t, obj) ==
    [id \in DOMAIN tbl |-> IF id = t.job_id THEN obj
                           ELSE [tbl[id] EXCEPT !.status = obj.status]]
Persist(tbl, t, obj) == [tbl EXCEPT ![t.job_id] = obj]

\* line 61: db = SessionLocal(), a session made for this run of the task
SessionLocal(r) == <<"task", r>>

\* line 61: db = SessionLocal()
ExecOpen(r) ==
    /\ task[r].pc = "queued"
    /\ CanStart(r)
    /\ task' = [task EXCEPT ![r].pc = "query", ![r].handle = "open",
                            ![r].db = Some(SessionLocal(r))]
    /\ UNCHANGED <<jobs, issued, nstories, clock, req, story_tbl, node_tbl, asm>>

\* lines 66-67: if not job: return
QueryAbsent_raise(t) ==
    [t EXCEPT !.pc = "except", !.load = "absent", !.exc = Some([msg |-> "job not found"])]
QueryAbsent_noclose(t) == [t EXCEPT !.pc = "done", !.load = "absent"]
QueryAbsent(t) == [t EXCEPT !.pc = "finally", !.load = "absent"]

\* line 64: job = db.query(StoryJob).filter(StoryJob.job_id == job_id).first()
QueryFound(t) ==
    [t EXCEPT !.pc = "processing", !.load = "found", !.obj = Some(jobs[t.job_id])]

\* lines 64-67: load the job; return when there is none
ExecQuery(r) ==
    /\ task[r].pc = "query"
    /\ task' = [task EXCEPT ![r] = IF task[r].job_id \in DOMAIN jobs
                                   THEN QueryFound(task[r])
                                   ELSE QueryAbsent(task[r])]
    /\ UNCHANGED <<jobs, issued, nstories, clock, req, story_tbl, node_tbl, asm>>

\* line 64 raises: the query is outside the inner try, the exception leaves
\* the function through the finally clause
ExecQueryRaise(r) ==
    /\ task[r].pc = "query"
    /\ task' = [task EXCEPT ![r].pc = "finally", ![r].load = "raised",
                            ![r].failed = TRUE,
                            ![r].exc = Some([msg |-> DbError]),
                            ![r].escaped = TRUE]
    /\ UNCHANGED <<jobs, issued, nstories, clock, req, story_tbl, node_tbl, asm>>

\* lines 71-72: job.status = "processing"; db.commit()
ExecProcessing(r) ==
    /\ task[r].pc = "processing"
    /\ CanCommit(task[r])
    /\ LET obj == ProcessingAssign(task[r].obj[1]) IN
        /\ jobs' = Persist(jobs, task[r], obj)
        /\ task' = [task EXCEPT ![r].pc = "generate", ![r].obj = Some(obj)]
    /\ UNCHANGED <<issued, nstories, clock, req, story_tbl, node_tbl, asm>>

\* line 72 raises: control passes to the except clause on line 80
ExecProcessingRaise(r) ==
    /\ task[r].pc = "processing"
    /\ LET obj == ProcessingAssign(task[r].obj[1]) IN
        task' = [task EXCEPT ![r] =
                    [CommitRaised([task[r] EXCEPT !.obj = Some(obj)]) EXCEPT
                        !.pc = "except",
                        !.exc = Some([msg |-> DbError])]]
    /\ UNCHANGED <<jobs, issued, nstories, clock, req, story_tbl, node_tbl, asm>>

\* line 74: StoryGenerator.generate_story(db, session_id, theme) is called
ExecGenerate(r) ==
    /\ task[r].pc = "generate"
    /\ task' = [task EXCEPT ![r].pc = "generating", ![r].gen = "running",
                            ![r].calls = @ + 1]
    /\ UNCHANGED <<jobs, issued, nstories, clock, req, story_tbl, node_tbl, asm>>

\* line 74 returns a story; its id is a new primary key of the Story table
ExecGenReturn(r) ==
    /\ task[r].pc = "generating"
    /\ nstories' = nstories + 1
    /\ task' = [task EXCEPT ![r].pc = "completing", ![r].gen = "returned",
                            ![r].story = Some(nstories + 1)]
    /\ UNCHANGED <<jobs, issued, clock, req, story_tbl, node_tbl, asm>>

\* line 74 raises
ExecGenRaise(r, m) ==
    /\ task[r].pc = "generating"
    /\ task' = [task EXCEPT ![r].pc = "except", ![r].gen = "raised",
                            ![r].exc = Some([msg |-> m])]
    /\ UNCHANGED <<jobs, issued, nstories, clock, req, story_tbl, node_tbl, asm>>

\* lines 76-79: record the result; db.commit()
ExecCompleted(r) ==
    /\ task[r].pc = "completing"
    /\ CanCommit(task[r])
    /\ LET obj == CompletedAssign(task[r].obj[1], task[r].story[1]) IN
        /\ jobs' = Persist(jobs, task[r], obj)
        /\ task' = [task EXCEPT ![r].pc = "finally", ![r].obj = Some(obj)]
    /\ UNCHANGED <<issued, nstories, clock, req, story_tbl, node_tbl, asm>>

\* line 79 raises: control passes to the except clause on line 80
ExecCompletedRaise(r) ==
    /\ task[r].pc = "completing"
    /\ LET obj == CompletedAssign(task[r].obj[1], task[r].story[1]) IN
        task' = [task EXCEPT ![r] =
                    [CommitRaised([task[r] EXCEPT !.obj = Some(obj)]) EXCEPT
                        !.pc = "except",
                        !.exc = Some([msg |-> DbError])]]
    /\ UNCHANGED <<jobs, issued, nstories, clock, req, story_tbl, node_tbl, asm>>

\* lines 84-86: after the failure is committed the function falls through to
\* the finally clause; generate_story is not called again
AfterFailed_retry(t, obj) == [t EXCEPT !.pc = "generate", !.obj = Some(obj)]
AfterFailed(t, obj) == [t EXCEPT !.pc = "finally", !.obj = Some(obj)]

\* lines 80-84: except Exception as e: record the failure; db.commit()
ExecFailed(r) ==
    /\ task[r].pc = "except"
    /\ CanCommit(task[r])
    /\ LET obj == FailedAssign(task[r].obj[1], task[r].exc[1]) IN
        /\ jobs' = Persist(jobs, task[r], obj)
        /\ task' = [task EXCEPT ![r] = AfterFailed(task[r], obj)]
    /\ UNCHANGED <<issued, nstories, clock, req, story_tbl, node_tbl, asm>>

\* line 84 raises: nothing encloses the handler, the exception leaves the
\* function through the finally clause
ExecFailedRaise(r) ==
    /\ task[r].pc = "except"
    /\ LET obj == FailedAssign(task[r].obj[1], task[r].exc[1]) IN
        task' = [task EXCEPT ![r] =
                    [CommitRaised([task[r] EXCEPT !.obj = Some(obj)]) EXCEPT
                        !.pc = "finally",
                        !.exc = Some([msg |-> DbError]),
                        !.escaped = TRUE]]
    /\ UNCHANGED <<jobs, issued, nstories, clock, req, story_tbl, node_tbl, asm>>

\* lines 85-86: finally: db.close()
ExecClose(r) ==
    /\ task[r].pc = "finally"
    /\ task' = [task EXCEPT ![r].pc = "done", ![r].handle = "closed"]
    /\ UNCHANGED <<jobs, issued, nstories, clock, req, story_tbl, node_tbl, asm>>

\* ------------------------------------------------------------- environment
\* a row of the StoryJob table is deleted by something outside this module,
\* between the scheduling of its task and the start of that task
DeleteJob(id) ==
    /\ id \in DOMAIN jobs
    /\ \E r \in Reqs : req[r].job_id = id /\ req[r].pc = "returned"
                         /\ task[r].pc = "queued"
    /\ jobs' = [i \in DOMAIN jobs \ {id} |-> jobs[i]]
    /\ UNCHANGED <<issued, nstories, clock, req, task, story_tbl, node_tbl, asm>>

Next ==
    \/ \E r \in Reqs, th \in Themes, s \in SessionIds : CreateJob(r, th, s)
    \/ \E r \in Reqs : AddTask(r)
    \/ \E r \in Reqs : ReturnJob(r)
    \/ \E r \in Reqs : ExecOpen(r)
    \/ \E r \in Reqs : ExecQuery(r)
    \/ \E r \in Reqs : ExecQueryRaise(r)
    \/ \E r \in Reqs : ExecProcessing(r)
    \/ \E r \in Reqs : ExecProcessingRaise(r)
    \/ \E r \in Reqs : ExecGenerate(r)
    \/ \E r \in Reqs : ExecGenReturn(r)
    \/ \E r \in Reqs, m \in GenErrors : ExecGenRaise(r, m)
    \/ \E r \in Reqs : ExecCompleted(r)
    \/ \E r \in Reqs : ExecCompletedRaise(r)
    \/ \E r \in Reqs : ExecFailed(r)
    \/ \E r \in Reqs : ExecFailedRaise(r)
    \/ \E r \in Reqs : ExecClose(r)
    \/ Tick

Spec == Init /\ [][Next]_vars

\* the same system with rows deleted from outside
NextDel ==
    \/ Next
    \/ \E id \in JobIds : DeleteJob(id)

SpecDel == Init /\ [][NextDel]_vars

\* ------------------------------------- get_complete_story, build_complete_story_tree
StoryIds == 1..2
NodeIds == 1..MaxNodes
HTTP_404 == 404
HTTP_500 == 500

\* a Story row
StoryRow(id) == [id |-> id, title |-> <<"title", id>>, session_id |-> Some("s1"),
                 created_at |-> 0]

\* a StoryNode row; the last node id is a winning ending, the others offer
\* one option leading to the next node
NodeRow(id, story_id, is_root) ==
    [id |-> id, story_id |-> story_id, is_root |-> is_root,
     content |-> <<"content", id>>,
     is_ending |-> (id = MaxNodes), is_winning_ending |-> (id = MaxNodes),
     options |-> IF id = MaxNodes THEN << >>
                 ELSE <<[text |-> "go on", node_id |-> Some(id + 1)]>>]

NodeRows == {NodeRow(id, sid, root) : id \in NodeIds, sid \in StoryIds, root \in BOOLEAN}

\* the contents the StoryNode table can have: rows with distinct primary
\* keys, in any order
NodeTables ==
    UNION {{t \in [1..n -> NodeRows] :
               \A i, j \in 1..n : i # j => t[i].id # t[j].id} : n \in 0..MaxNodes}

\* a StoryJob row left by an earlier run
StoredJob ==
    [job_id |-> 1, session_id |-> "s1", theme |-> "pirates", status |-> "completed",
     story_id |-> Some(1), completed_at |-> Some(0), error |-> None, created_at |-> 0]

\* storage as any earlier activity can have left it
InitTree ==
    /\ jobs = (1 :> StoredJob)
    /\ issued = {1}
    /\ nstories = 0
    /\ clock = 0
    /\ req = [r \in Reqs |-> IdleReq]
    /\ task = [r \in Reqs |-> IdleTask]
    /\ story_tbl \in {[id \in S |-> StoryRow(id)] : S \in SUBSET StoryIds}
    /\ node_tbl \in NodeTables
    /\ asm = IdleAsm

\* lines 104-110: CompleteStoryNodeResponse(id=..., content=..., is_ending=...,
\*                is_winning_ending=..., options=...)
CompleteStoryNodeResponse(node) ==
    [id |-> node.id, content |-> node.content, is_ending |-> node.is_ending,
     is_winning_ending |-> node.is_winning_ending, options |-> node.options]

\* line 100: db.query(StoryNode).filter(StoryNode.story_id == story.id).all()
NodesOf(story_id) ==
    LET OfStory(n) == n.story_id = story_id IN SelectSeq(node_tbl, OfStory)

\* line 111: node_dict[node.id] = node_response
DictPut_bystory(d, node) ==
    [k \in DOMAIN d \cup {node.story_id} |->
        IF k = node.story_id THEN CompleteStoryNodeResponse(node) ELSE d[k]]
DictPut(d, node) ==
    [k \in DOMAIN d \cup {node.id} |->
        IF k = node.id THEN CompleteStoryNodeResponse(node) ELSE d[k]]

\* line 117: next((node for node in nodes if node.is_root), None)
FirstRoot_last(nodes) ==
    LET roots == {i \in 1..Len(nodes) : nodes[i].is_root} IN
    IF roots = {} THEN None
    ELSE Some(nodes[CHOOSE i \in roots : \A j \in roots : j <= i])
FirstRoot(nodes) ==
    LET roots == {i \in 1..Len(nodes) : nodes[i].is_root} IN
    IF roots = {} THEN None
    ELSE Some(nodes[CHOOSE i \in roots : \A j \in roots : i <= j])

\* lines 121-128: CompleteStoryResponse(...)
CompleteStoryResponse(story, root, node_dict) ==
    [id |-> story.id, title |-> story.title, session_id |-> story.session_id,
     created_at |-> story.created_at, root_node |-> node_dict[root.id],
     all_nodes |-> node_dict]

\* the request GET /stories/{story_id}/complete arrives
AsmCall(story_id) ==
    /\ asm.pc = "idle"
    /\ asm' = [IdleAsm EXCEPT !.pc = "query", !.arg = story_id]
    /\ UNCHANGED <<jobs, issued, nstories, clock, req, task, story_tbl, node_tbl>>

\* lines 91 and 100: db.query(...) reads a table and leaves it as it is
QueryEffect_clear(tbl) == [k \in {} |-> None]
QueryEffect(tbl) == tbl

\* lines 91-93: story = db.query(Story)...first(); 404 when there is none
StoryMissing_500(a) == [a EXCEPT !.pc = "raised", !.status = HTTP_500]
StoryMissing(a) == [a EXCEPT !.pc = "raised", !.status = HTTP_404]

AsmQuery ==
    /\ asm.pc = "query"
    /\ asm' = IF asm.arg \in DOMAIN story_tbl
              THEN [asm EXCEPT !.pc = "load", !.story = Some(story_tbl[asm.arg])]
              ELSE StoryMissing(asm)
    /\ story_tbl' = QueryEffect(story_tbl)
    /\ UNCHANGED <<jobs, issued, nstories, clock, req, task, node_tbl>>

\* lines 100-102: nodes = ...all(); node_dict = {}
AsmLoad ==
    /\ asm.pc = "load"
    /\ asm' = [asm EXCEPT !.pc = "loop", !.loaded = TRUE,
                          !.nodes = NodesOf(asm.story[1].id), !.i = 1]
    /\ node_tbl' = QueryEffect(node_tbl)
    /\ UNCHANGED <<jobs, issued, nstories, clock, req, task, story_tbl>>

\* lines 103-111: one iteration of the loop over nodes
AsmPut ==
    /\ asm.pc = "loop"
    /\ asm.i <= Len(asm.nodes)
    /\ asm' = [asm EXCEPT !.node_dict = DictPut(asm.node_dict, asm.nodes[asm.i]),
                          !.i = asm.i + 1]
    /\ UNCHANGED <<jobs, issued, nstories, clock, req, task, story_tbl, node_tbl>>

\* lines 117-119: find the root; 500 when there is none
RootMissing_404(a) == [a EXCEPT !.pc = "raised", !.status = HTTP_404]
RootMissing(a) == [a EXCEPT !.pc = "raised", !.status = HTTP_500]

AsmRoot ==
    /\ asm.pc = "loop"
    /\ asm.i > Len(asm.nodes)
    /\ LET root == FirstRoot(asm.nodes) IN
        asm' = IF root = None THEN RootMissing(asm)
               ELSE [asm EXCEPT !.pc = "return", !.root = root]
    /\ UNCHANGED <<jobs, issued, nstories, clock, req, task, story_tbl, node_tbl>>

\* lines 121-128 and 96: build and return the response; the lookup
\* node_dict[root_node.id] on line 126 raises KeyError for a missing key
AsmReturn ==
    /\ asm.pc = "return"
    /\ asm' = IF asm.root[1].id \in DOMAIN asm.node_dict
              THEN [asm EXCEPT !.pc = "done",
                      !.result = Some(CompleteStoryResponse(asm.story[1], asm.root[1],
                                                            asm.node_dict))]
              ELSE [asm EXCEPT !.pc = "raised", !.status = HTTP_500]
    /\ UNCHANGED <<jobs, issued, nstories, clock, req, task, story_tbl, node_tbl>>

NextTree ==
    \/ \E id \in StoryIds : AsmCall(id)
    \/ AsmQuery
    \/ AsmLoad
    \/ AsmPut
    \/ AsmRoot
    \/ AsmReturn

SpecTree == InitTree /\ [][NextTree]_vars

\* ------------------------------------------------------------------ claims
Row(r) == jobs[task[r].job_id]
HasRow(r) == task[r].job_id \in DOMAIN jobs

\* the status changes an observer of the committed row may see
StatusStep == {<<"pending", "processing">>, <<"processing", "completed">>,
               <<"processing", "failed">>}

\* C1: a committed Job Record starts as pending and its status only ever
\* moves pending -> processing -> completed or pending -> processing -> failed:
\* no status is skipped and completed and failed are never left.
C1_StatusSequence ==
    [][\A id \in DOMAIN jobs' :
         IF id \in DOMAIN jobs
         THEN \/ jobs'[id].status = jobs[id].status
              \/ <<jobs[id].status, jobs'[id].status>> \in StatusStep
         ELSE jobs'[id].status = "pending"]_vars

C1_Witness ==
    \E a, b \in DOMAIN jobs :
        jobs[a].status = "completed" /\ jobs[b].status = "failed"

\* C2: a committed Job Record with status failed has an error and no
\* story_id, also when the failure was raised after generate_story had
\* returned and story_id had been assigned.
C2_FailedHasErrorNoResult ==
    \A id \in DOMAIN jobs :
        jobs[id].status = "failed" =>
            jobs[id].error # None /\ jobs[id].story_id = None

C2_Witness ==
    /\ \E id \in DOMAIN jobs : jobs[id].status = "failed"
    /\ \E r \in Reqs : /\ task[r].pc = "done"
                       /\ task[r].gen = "returned"
                       /\ task[r].exc # None

\* C3: a committed Job Record with status completed has a story_id and no
\* error; with status pending or processing it has neither.
C3_CompletedAndOpenRecords ==
    \A id \in DOMAIN jobs :
        /\ jobs[id].status = "completed" =>
               jobs[id].story_id # None /\ jobs[id].error = None
        /\ jobs[id].status \in {"pending", "processing"} =>
               jobs[id].story_id = None /\ jobs[id].error = None

C3_Witness ==
    /\ \E id \in DOMAIN jobs : jobs[id].status = "completed"
    /\ \E id \in DOMAIN jobs : jobs[id].status = "processing"

C5_FailedWhenGenerationRaises ==
    \A r \in Reqs :
        (task[r].pc = "done" /\ task[r].gen = "raised") =>
            /\ HasRow(r)
            /\ Row(r).status = "failed"
            /\ Row(r).story_id = None
            /\ Row(r).error # None

\* C6: no exception leaves generate_story_task, and a task in which a step
\* raised leaves the record failed.
C6_NoFailureEscapes ==
    \A r \in Reqs :
        /\ ~task[r].escaped
        /\ (task[r].pc = "done" /\ task[r].exc # None) =>
               HasRow(r) /\ Row(r).status = "failed"

\* C7: a task whose query finds no Job Record changes no row, creates no
\* story, never calls generate_story, raises nothing and only closes its
\* session.
C7_AbsentJobNoOp ==
    [][\A r \in Reqs :
         /\ (task[r].pc = "query" /\ task'[r].load = "absent") =>
                jobs' = jobs /\ nstories' = nstories
         /\ task'[r].load = "absent" =>
                /\ task'[r].pc \in {"finally", "done"}
                /\ task'[r].gen = "none"
                /\ task'[r].exc = None
                /\ ~task'[r].escaped
                /\ task'[r].obj = None]_vars

C7_Witness ==
    \E r \in Reqs : task[r].load = "absent" /\ task[r].pc = "done"

\* C8: a task has started only if create_story has committed the pending
\* record and returned its response, and its record is there when it
\* queries for it.
C8_TaskStartsAfterResponse ==
    \A r \in Reqs :
        /\ task[r].pc \notin {"none", "queued"} =>
               /\ req[r].pc = "returned"
               /\ req[r].response # None
               /\ task[r].load # "absent"
        /\ task[r].pc = "query" => HasRow(r)
        /\ req[r].pc # "returned" => task[r].gen = "none"

C8_Witness ==
    \E r \in Reqs : task[r].pc = "processing" /\ task[r].load = "found"

\* C9: each call of create_story adds exactly one row, under an id never
\* generated before, with status pending, changes no other row, and returns
\* a summary with status pending and story_id, error and completed_at null.
C9_CreateOneFreshPendingJob ==
    [][\A r \in Reqs :
         /\ (req[r].pc = "idle" /\ req'[r].pc # "idle") =>
                LET id == req'[r].job_id IN
                /\ id \notin issued
                /\ id \notin DOMAIN jobs
                /\ DOMAIN jobs' = DOMAIN jobs \cup {id}
                /\ \A o \in DOMAIN jobs : jobs'[o] = jobs[o]
                /\ jobs'[id].job_id = id
                /\ jobs'[id].status = "pending"
         /\ (req[r].pc # "returned" /\ req'[r].pc = "returned") =>
                /\ req'[r].response # None
                /\ req'[r].response[1].job_id = req[r].job_id
                /\ req'[r].response[1].status = "pending"
                /\ req'[r].response[1].story_id = None
                /\ req'[r].response[1].error = None
                /\ req'[r].response[1].completed_at = None
         /\ \A q \in Reqs :
                (q # r /\ req'[q].pc # "idle" /\ req'[r].pc # "idle") =>
                    req'[q].job_id # req'[r].job_id]_vars

C9_Witness ==
    \E q, r \in Reqs : q # r /\ req[q].pc = "returned" /\ req[r].pc = "returned"

\* C10: while generate_story is running the committed record has status
\* processing and no story_id, error or completed_at.
C10_ProcessingCommittedBeforeGeneration ==
    \A r \in Reqs :
        task[r].gen = "running" =>
            /\ HasRow(r)
            /\ Row(r).status = "processing"
            /\ Row(r).story_id = None
            /\ Row(r).error = None
            /\ Row(r).completed_at = None

C10_Witness ==
    \E r \in Reqs : task[r].gen = "running" /\ task[r].pc = "generating"

\* the stored nodes of the requested narrative, by position in load order
StoredIdx == {i \in 1..Len(node_tbl) : node_tbl[i].story_id = asm.arg}
RootIdx == {i \in StoredIdx : node_tbl[i].is_root}
AsmFinished == asm.pc \in {"done", "raised"}

\* C11: for an existing narrative with N stored nodes of which exactly one
\* is flagged root, assembly returns a response whose all_nodes has exactly
\* N entries, one per stored node under that node's id, and whose root_node
\* is the all_nodes entry of the flagged root.
C11_AllNodesAndRoot ==
    (AsmFinished /\ asm.arg \in DOMAIN story_tbl /\ Cardinality(RootIdx) = 1) =>
        /\ asm.pc = "done"
        /\ asm.result # None
        /\ LET resp == asm.result[1] IN
            /\ Cardinality(DOMAIN resp.all_nodes) = Cardinality(StoredIdx)
            /\ \A i \in StoredIdx :
                   /\ node_tbl[i].id \in DOMAIN resp.all_nodes
                   /\ resp.all_nodes[node_tbl[i].id].id = node_tbl[i].id
                   /\ resp.all_nodes[node_tbl[i].id].content = node_tbl[i].content
            /\ \A i \in RootIdx : resp.root_node = resp.all_nodes[node_tbl[i].id]
            /\ resp.id = asm.arg

C11_Witness ==
    /\ asm.pc = "done"
    /\ Cardinality(RootIdx) = 1
    /\ Cardinality(StoredIdx) = MaxNodes

\* C12: for an existing narrative with no stored node, or with none flagged
\* root, assembly raises HTTP 500, never 404, and returns no response.
C12_RootlessIsInternalError ==
    (asm.pc \in {"return", "done", "raised"} /\ asm.arg \in DOMAIN story_tbl
        /\ RootIdx = {}) =>
        /\ asm.pc = "raised"
        /\ asm.status = HTTP_500
        /\ asm.result = None

C12_Witness ==
    /\ asm.pc = "raised"
    /\ asm.arg \in DOMAIN story_tbl
    /\ StoredIdx # {}
    /\ RootIdx = {}

\* C13: for a narrative id with no Story row, assembly raises HTTP 404
\* before any node is loaded, whether or not nodes carry that id.
C13_MissingStoryIsNotFound ==
    (asm.pc \notin {"idle", "query"} /\ asm.arg \notin DOMAIN story_tbl) =>
        /\ asm.pc = "raised"
        /\ asm.status = HTTP_404
        /\ ~asm.loaded
        /\ asm.nodes = << >>
        /\ asm.result = None

C13_Witness ==
    /\ asm.pc = "raised"
    /\ asm.arg \notin DOMAIN story_tbl
    /\ RootIdx # {}

\* C18: assembling a tree never writes: every step of an assembly, whatever
\* its outcome, leaves narratives, nodes and Job Records as they were.
C18_AssemblyReadOnly ==
    [][asm' # asm =>
        /\ story_tbl' = story_tbl
        /\ node_tbl' = node_tbl
        /\ jobs' = jobs]_vars

C18_Witness ==
    /\ asm.pc = "done"
    /\ DOMAIN story_tbl = StoryIds
    /\ Len(node_tbl) = MaxNodes
    /\ DOMAIN jobs # {}

\* C19: when at least one stored node of an existing narrative is flagged
\* root (several included), assembly succeeds and root_node is the all_nodes
\* entry of the first root-flagged node in load order.
FirstRootIdx == CHOOSE i \in RootIdx : \A j \in RootIdx : i <= j

C19_FirstRootWins ==
    (AsmFinished /\ asm.arg \in DOMAIN story_tbl /\ RootIdx # {}) =>
        /\ asm.pc = "done"
        /\ asm.result # None
        /\ LET resp == asm.result[1]
               first == node_tbl[FirstRootIdx]
           IN  /\ first.id \in DOMAIN resp.all_nodes
               /\ resp.root_node = resp.all_nodes[first.id]
               /\ resp.root_node = CompleteStoryNodeResponse(first)

C19_Witness ==
    /\ asm.pc = "done"
    /\ Cardinality(RootIdx) >= 2
    /\ \E i \in StoredIdx : ~node_tbl[i].is_root /\ i < FirstRootIdx

\* C14: a Job Record is written by the submission that creates it and then
\* only by the executor run of that same job: a step of one run never changes
\* or creates another job's record, and jobs finish in any order.
Terminal == {"completed", "failed"}

C14_OnlyOwnRecordWritten ==
    [][\A id \in DOMAIN jobs' :
          (id \notin DOMAIN jobs \/ jobs'[id] # jobs[id]) =>
              \/ /\ id \notin DOMAIN jobs
                 /\ \E r \in Reqs : /\ req[r].pc = "idle"
                                    /\ req'[r].pc = "committed"
                                    /\ req'[r].job_id = id
                 /\ \A o \in DOMAIN jobs : jobs'[o] = jobs[o]
              \/ /\ id \in DOMAIN jobs
                 /\ \E r \in Reqs : /\ req[r].job_id = id
                                    /\ task[r].job_id = id
                                    /\ task[r].handle = "open"
                                    /\ task'[r] # task[r]
                                    /\ \A q \in Reqs \ {r} : task'[q] = task[q]
                 /\ \A o \in DOMAIN jobs \ {id} : jobs'[o] = jobs[o]]_vars

C14_Witness ==
    \E a, b \in Reqs :
        /\ a < b
        /\ HasRow(a) /\ HasRow(b)
        /\ task[a].job_id # task[b].job_id
        /\ Row(b).status \in Terminal
        /\ Row(a).status = "processing"
        /\ task[a].pc = "generating"

\* C15: generate_story is called at most once per job identifier over the
\* whole life of the system, and a record in status failed stays failed.
RECURSIVE SumCalls(_)
SumCalls(S) ==
    IF S = {} THEN 0
    ELSE LET r == CHOOSE x \in S : TRUE IN task[r].calls + SumCalls(S \ {r})

CallsOf(id) == SumCalls({r \in Reqs : task[r].pc # "none" /\ task[r].job_id = id})

C15_SingleAttempt ==
    /\ [](\A id \in JobIds : CallsOf(id) <= 1)
    /\ [][\A id \in DOMAIN jobs :
             jobs[id].status = "failed" =>
                 id \in DOMAIN jobs' /\ jobs'[id].status = "failed"]_vars

C15_Witness ==
    \E r \in Reqs :
        /\ HasRow(r)
        /\ Row(r).status = "failed"
        /\ task[r].pc = "done"
        /\ CallsOf(task[r].job_id) = 1

\* C16: every job whose generate_story call returned or raised reaches
\* completed or failed: once its run has finished the record is terminal;
\* and while the call has not returned the record stays processing.
C16_TerminalOnceGenerationEnds ==
    \A r \in Reqs :
        /\ (task[r].pc = "done" /\ task[r].gen \in {"returned", "raised"}) =>
               HasRow(r) /\ Row(r).status \in Terminal
        /\ (task[r].pc = "generating" /\ HasRow(r)) =>
               Row(r).status = "processing"

\* C17: every run of generate_story_task works on a session it opened
\* itself, which is no request's session and no other run's, and once the run
\* has exited (success, recorded failure, or the no-op return for an absent
\* job) that session is closed.
Started(r) == task[r].pc \notin {"none", "queued"}

C17_OwnHandleAlwaysReleased ==
    \A r \in Reqs :
        /\ Started(r) =>
            /\ task[r].db # None
            /\ \A q \in Reqs : req[q].db # task[r].db
            /\ \A q \in Reqs \ {r} : task[q].db # task[r].db
        /\ ~Started(r) => task[r].db = None /\ task[r].handle = "none"
        /\ task[r].pc = "done" => task[r].handle = "closed"
        /\ (Started(r) /\ task[r].pc # "done") => task[r].handle = "open"

C17_Witness ==
    \E a, b \in Reqs :
        /\ task[a].pc = "done" /\ task[a].load = "absent"
        /\ task[a].handle = "closed"
        /\ task[b].pc = "done" /\ HasRow(b) /\ Row(b).status \in Terminal
        /\ task[b].handle = "closed"

\* C20: a Job Record has a completion timestamp exactly when its status is
\* completed or failed; the timestamp is written by the step that writes the
\* terminal status; job_id, session_id and theme of a record never change.
C20_TimestampIffTerminal ==
    /\ [](\A id \in DOMAIN jobs :
            (jobs[id].completed_at # None) <=> (jobs[id].status \in Terminal))
    /\ [][\A id \in DOMAIN jobs \cap DOMAIN jobs' :
            /\ jobs'[id].job_id = jobs[id].job_id
            /\ jobs'[id].session_id = jobs[id].session_id
            /\ jobs'[id].theme = jobs[id].theme
            /\ jobs'[id].job_id = id
            /\ (jobs'[id].status \in Terminal /\ jobs[id].status \notin Terminal) =>
                   jobs[id].completed_at = None /\ jobs'[id].completed_at # None
            /\ jobs'[id].completed_at # jobs[id].completed_at =>
                   jobs'[id].status # jobs[id].status]_vars

C20_Witness ==
    \E a, b \in Reqs :
        /\ HasRow(a) /\ HasRow(b)
        /\ Row(a).status = "failed" /\ Row(a).completed_at # None
        /\ Row(b).status = "completed" /\ Row(b).completed_at # None
        /\ Row(a).session_id = req[a].session_id /\ Row(a).theme = req[a].theme
        /\ Row(b).session_id = req[b].session_id /\ Row(b).theme = req[b].theme

=============================================================================
